---------------------------- MODULE Spec2Model ----------------------------
(***************************************************************************)
(* The teleoperation control loop of demo_real_robot.py (function main).   *)
(*                                                                         *)
(* Time is counted in ticks of 0.05 s: the period dt = 1/frequency is Dt   *)
(* ticks and command_latency is CommandLatency ticks.  Positions are       *)
(* counted in units of 5 mm, so that one full-scale sample moves the       *)
(* target by PosStep units per cycle.  Rotational increments are counted   *)
(* in units of RotStep.                                                    *)
(*                                                                         *)
(* The loop thread is modelled statement group by statement group (pc);    *)
(* the keyboard listener thread (OnPress) interleaves between them.        *)
(***************************************************************************)
EXTENDS Integers, Sequences, FiniteSets, TLC

\* ------------------------------------------------------------- bounds
\* cycles the loop may begin
MaxIter == 2
\* key presses the operator makes in one run
MaxPress == 2
\* --------------------------------------------------- program constants
\* dt = 1/frequency, frequency = 10 Hz, in ticks of 0.05 s
Dt == 2
\* command_latency = 0.05 s, in ticks of 0.05 s
CommandLatency == 1
\* env.max_pos_speed / frequency, in units of 5 mm
PosStep == 5
\* env.max_rot_speed / frequency, in rotation units
RotStep == 1
\* time.time() - time.monotonic(), in ticks
WallOffset == 100
\* time.monotonic() when the loop is entered, in ticks
MonotonicAtStart == 3

\* precise_wait returns on time or one tick late
Lateness == {0, 1}

\* the operator answers the confirmation prompt at once, or only after more
\* than two periods have gone by
MaxBlock == 2 * Dt + 1

\* the keys the listener reports: q, c, s, backspace, and the modifier space
Keys == {"q", "c", "s", "backspace", "space"}

\* raw device samples: 6 axes normalised to [-1, 1]
Axis == {-1, 0, 1}

Samples == Axis \X Axis \X Axis \X Axis \X Axis \X Axis

\* every sample with every combination of the two buttons
AllInputs == Samples \X BOOLEAN \X BOOLEAN

\* the inputs of a teleoperation session: a push along x with no button
\* (planar translation), or a push and twist with the left button held
SessionInputs ==
    { << <<1, 0, 0, 0, 0, 0>>, FALSE, FALSE >>,
      << <<1, -1, 1, 1, 1, -1>>, TRUE, FALSE >> }

\* the left button held and the device twisted, not pushed: every
\* combination of the three rotation axes
RotationInputs ==
    { << <<0, 0, 0, r[1], r[2], r[3]>>, TRUE, FALSE >> :
        r \in Axis \X Axis \X Axis }

Zero6 == <<0, 0, 0, 0, 0, 0>>

Zero3 == <<0, 0, 0>>

CallNames == {"get_obs", "start_episode", "end_episode", "drop_episode",
              "exec_actions", "device", "confirm"}

VARIABLES
    pc,              \* position of the loop thread
    now,             \* time.monotonic(), in ticks
    t_start,         \* anchor of the deadlines
    iter_idx,
    stop,
    is_recording,
    t_cycle_end, t_sample, t_command_target,
    prev_cycle_end,  \* history: t_cycle_end of the previous cycle
    press_events,    \* the drained batch, events not yet handled
    stage,
    sm_state,        \* the device sample read this cycle
    buttons,         \* << is_button_pressed(0), is_button_pressed(1) >>
    dpos, drot_xyz,  \* the gated per-cycle deltas
    target_pose,     \* [pos, rot]
    device,          \* the inputs the device may present (fixed)
    key_count_map,   \* KeystrokeCounter: presses per key since the last clear
    key_press_list,  \* KeystrokeCounter: presses not yet drained
    n_press,         \* presses made so far (bounded by MaxPress)
    calls,           \* history: external calls issued so far, per name
    answer,          \* result of click.confirm in this batch, or "none"
    failure,         \* history: the external call that raised, or "none"
    last_start,      \* history: timestamp given to the latest start_episode
    last_exec,       \* history: arguments of the latest exec_actions
    mod_since_key,   \* history: modifier presses made after the key press
                     \*   of the latest handled Start/Stop/confirmed Drop
    mod_since_handled, \* history: modifier presses made after the handling
                     \*   of the latest Start/Stop/confirmed Drop
    trans_iter,      \* history: cycle of that handling, -1 if none yet
    increments,      \* history: the pose updates made so far: how many, and
                     \*   the increment drot_xyz when all used the same one
    start_iter,      \* history: cycle of the latest start_episode call, or -1
    after_quit       \* history: events handled after stop was set

timing == << t_cycle_end, t_sample, t_command_target, prev_cycle_end >>

motion == << sm_state, buttons, dpos, drot_xyz >>

keyVars == << key_count_map, key_press_list >>

ghost == << mod_since_key, mod_since_handled, trans_iter >>

record == << last_start, last_exec >>

hist == << increments, start_iter, after_quit >>

loopVars == << pc, now, t_start, iter_idx, stop, is_recording, timing,
               press_events, stage, motion, target_pose, calls, answer,
               failure, record >>

vars == << loopVars, keyVars, n_press, ghost, hist, device >>

Max(a, b) == IF a >= b THEN a ELSE b

\* time.time() read when time.monotonic() reads m
Wall(m) == m + WallOffset

RECURSIVE CountKey(_, _)
CountKey(seq, k) ==
    IF seq = <<>> THEN 0
    ELSE (IF Head(seq) = k THEN 1 ELSE 0) + CountKey(Tail(seq), k)

\* --------------------------------------------------- KeystrokeCounter
NoCounts == [k \in Keys |-> 0]

\* KeystrokeCounter.on_press, run by the listener thread
OnPress(k) ==
    /\ pc \notin {"done", "failed"}
    /\ n_press < MaxPress
    /\ n_press' = n_press + 1
    /\ key_count_map' = [key_count_map EXCEPT ![k] = @ + 1]
    /\ key_press_list' = Append(key_press_list, k)
    /\ mod_since_key' = mod_since_key + (IF k = "space" THEN 1 ELSE 0)
    /\ mod_since_handled' = mod_since_handled + (IF k = "space" THEN 1 ELSE 0)
    /\ UNCHANGED << loopVars, trans_iter, hist, device >>

\* KeystrokeCounter.get_press_events: the pending presses, in arrival order;
\* the pending list is left empty
Drained ==
    /\ press_events' = key_press_list
    /\ key_press_list' = <<>>

\* KeystrokeCounter.clear: hold-counts and pending presses are both reset
Cleared ==
    /\ key_count_map' = NoCounts
    /\ key_press_list' = <<>>

\* ------------------------------------------------------- Cycle Scheduler
CycleEnd_from_now(ts, i) == now + Dt

CycleEnd(ts, i) == ts + (i + 1) * Dt

SampleTime(ce) == ce - CommandLatency

CommandTarget(ce) == ce + Dt

\* the instant precise_wait(t) returns: never before t, possibly late
WaitReturns(t, j) == Max(now, t) + j

\* ---------------------------------------------------------- the loop
\* an external call is issued
Issue(name) == calls' = [calls EXCEPT ![name] = @ + 1]

Raise_and_continue == pc' = "loop"

\* an exception raised inside the loop body leaves main
Raise == pc' = "failed"

\* the external call `name` raises
Fails(name) == failure' = name /\ Raise

LoopCond_ignoring_stop == TRUE

\* while not stop
LoopCond == ~stop

BeginCycle_events_first ==
    /\ pc = "loop"
    /\ LoopCond
    /\ iter_idx < MaxIter
    /\ t_cycle_end' = CycleEnd(t_start, iter_idx)
    /\ t_sample' = SampleTime(CycleEnd(t_start, iter_idx))
    /\ t_command_target' = CommandTarget(CycleEnd(t_start, iter_idx))
    /\ prev_cycle_end' = t_cycle_end
    /\ pc' = "drain"
    /\ UNCHANGED << now, t_start, iter_idx, stop, is_recording, press_events,
                    stage, motion, target_pose, calls, answer, failure,
                    record, keyVars, n_press, ghost, hist, device >>

\* lines 81-85: the loop test, then the deadlines of cycle iter_idx
BeginCycle ==
    /\ pc = "loop"
    /\ LoopCond
    /\ iter_idx < MaxIter
    /\ t_cycle_end' = CycleEnd(t_start, iter_idx)
    /\ t_sample' = SampleTime(CycleEnd(t_start, iter_idx))
    /\ t_command_target' = CommandTarget(CycleEnd(t_start, iter_idx))
    /\ prev_cycle_end' = t_cycle_end
    /\ pc' = "get_obs"
    /\ UNCHANGED << now, t_start, iter_idx, stop, is_recording, press_events,
                    stage, motion, target_pose, calls, answer, failure,
                    record, keyVars, n_press, ghost, hist, device >>

\* the while condition is false: main returns
ExitLoop ==
    /\ pc = "loop"
    /\ ~LoopCond
    /\ pc' = "done"
    /\ UNCHANGED << now, t_start, iter_idx, stop, is_recording, timing,
                    press_events, stage, motion, target_pose, calls, answer,
                    failure, record, keyVars, n_press, ghost, hist, device >>

\* obs = env.get_obs()
GetObs ==
    /\ pc = "get_obs"
    /\ Issue("get_obs")
    /\ \E ok \in BOOLEAN :
         IF ok THEN pc' = "drain" /\ UNCHANGED failure ELSE Fails("get_obs")
    /\ UNCHANGED << now, t_start, iter_idx, stop, is_recording, timing,
                    press_events, stage, motion, target_pose, answer,
                    record, keyVars, n_press, ghost, hist, device >>

\* press_events = key_counter.get_press_events()
GetPressEvents ==
    /\ pc = "drain"
    /\ Drained
    /\ pc' = "handle"
    /\ UNCHANGED << now, t_start, iter_idx, stop, is_recording, timing,
                    stage, motion, target_pose, calls, answer, failure,
                    record, key_count_map, n_press, ghost, hist, device >>

StartTimestamp_one_ahead(ts, i) == ts + (i + 1) * Dt - now + Wall(now)

\* the timestamp handed to start_episode (line 98)
StartTimestamp(ts, i) == ts + (i + 2) * Dt - now + Wall(now)

\* for key_stroke in press_events: the key handled next
NextKey == Head(press_events)

Handling(k) ==
    /\ pc = "handle"
    /\ press_events # <<>>
    /\ NextKey = k

\* history: a Start, Stop or confirmed Drop has been handled
NoteHandled ==
    /\ mod_since_key' = CountKey(Tail(press_events) \o key_press_list, "space")
    /\ mod_since_handled' = 0
    /\ trans_iter' = iter_idx

\* history: one more event of the batch has been handled
NoteOrder == after_quit' = after_quit + (IF stop THEN 1 ELSE 0)

HandleQuit_break ==
    /\ Handling("q")
    /\ stop' = TRUE
    /\ press_events' = <<>>
    /\ NoteOrder
    /\ UNCHANGED << pc, now, t_start, iter_idx, is_recording, timing, stage,
                    motion, target_pose, calls, answer, failure, record,
                    keyVars, n_press, ghost, increments,
                    start_iter, device >>

\* KeyCode(char='q'): stop = True
HandleQuit ==
    /\ Handling("q")
    /\ stop' = TRUE
    /\ press_events' = Tail(press_events)
    /\ NoteOrder
    /\ UNCHANGED << pc, now, t_start, iter_idx, is_recording, timing, stage,
                    motion, target_pose, calls, answer, failure, record,
                    keyVars, n_press, ghost, increments,
                    start_iter, device >>

\* KeyCode(char='c'): start_episode, clear, is_recording = True
HandleStart ==
    /\ Handling("c")
    /\ Issue("start_episode")
    /\ last_start' = StartTimestamp(t_start, iter_idx)
    /\ start_iter' = iter_idx
    /\ \E ok \in BOOLEAN :
         IF ok
         THEN /\ Cleared
              /\ is_recording' = TRUE
              /\ press_events' = Tail(press_events)
              /\ NoteHandled
              /\ NoteOrder
              /\ UNCHANGED << pc, failure >>
         ELSE /\ Fails("start_episode")
              /\ UNCHANGED << keyVars, is_recording, press_events, ghost,
                              after_quit >>
    /\ UNCHANGED << now, t_start, iter_idx, stop, timing, stage, motion,
                    target_pose, answer, last_exec, n_press, increments,
                    device >>

\* KeyCode(char='s'): end_episode, clear, is_recording = False
HandleStop ==
    /\ Handling("s")
    /\ Issue("end_episode")
    /\ \E ok \in BOOLEAN :
         IF ok
         THEN /\ Cleared
              /\ is_recording' = FALSE
              /\ press_events' = Tail(press_events)
              /\ NoteHandled
              /\ NoteOrder
              /\ UNCHANGED << pc, failure >>
         ELSE /\ Fails("end_episode")
              /\ UNCHANGED << keyVars, is_recording, press_events, ghost,
                              after_quit >>
    /\ UNCHANGED << now, t_start, iter_idx, stop, timing, stage, motion,
                    target_pose, answer, record, n_press, increments,
                    start_iter, device >>

ShouldDrop_always(ans) == ans \in {"yes", "no"}

\* if click.confirm(...): the branch taken for an answer
ShouldDrop(ans) == ans = "yes"

\* Key.backspace: ask the operator, then drop_episode, clear,
\* is_recording = False
HandleDrop ==
    /\ Handling("backspace")
    /\ \E ans \in {"yes", "no"}, d \in {0, MaxBlock} :
         /\ answer' = ans
         /\ now' = now + d
         /\ IF ShouldDrop(ans)
            THEN /\ calls' = [calls EXCEPT !["confirm"] = @ + 1,
                                           !["drop_episode"] = @ + 1]
                 /\ \E ok \in BOOLEAN :
                      IF ok
                      THEN /\ Cleared
                           /\ is_recording' = FALSE
                           /\ press_events' = Tail(press_events)
                           /\ NoteHandled
                           /\ NoteOrder
                           /\ UNCHANGED << pc, failure >>
                      ELSE /\ Fails("drop_episode")
                           /\ UNCHANGED << keyVars, is_recording,
                                           press_events, ghost,
                                           after_quit >>
            ELSE /\ Issue("confirm")
                 /\ press_events' = Tail(press_events)
                 /\ NoteOrder
                 /\ UNCHANGED << pc, failure, keyVars, is_recording, ghost >>
    /\ UNCHANGED << t_start, iter_idx, stop, timing, stage, motion,
                    target_pose, record, n_press, increments,
                    start_iter, device >>

\* any other key (the modifier included) matches no branch
HandleOther ==
    /\ pc = "handle"
    /\ press_events # <<>>
    /\ NextKey \notin {"q", "c", "s", "backspace"}
    /\ press_events' = Tail(press_events)
    /\ NoteOrder
    /\ UNCHANGED << pc, now, t_start, iter_idx, stop, is_recording, timing,
                    stage, motion, target_pose, calls, answer, failure,
                    record, keyVars, n_press, ghost, increments,
                    start_iter, device >>

StageRead_wrong_key(counts) == counts["c"] + counts["space"]

\* key_counter[Key.space]
StageRead(counts) == counts["space"]

\* line 115: stage = key_counter[Key.space], once the batch is handled
ReadStage ==
    /\ pc = "handle"
    /\ press_events = <<>>
    /\ stage' = StageRead(key_count_map)
    /\ answer' = "none"
    /\ pc' = "wait_sample"
    /\ UNCHANGED << now, t_start, iter_idx, stop, is_recording, timing,
                    press_events, motion, target_pose, calls, failure,
                    record, keyVars, n_press, ghost, hist, device >>

\* precise_wait(t_sample)
WaitSample ==
    /\ pc = "wait_sample"
    /\ \E j \in Lateness : now' = WaitReturns(t_sample, j)
    /\ pc' = "read_device"
    /\ UNCHANGED << t_start, iter_idx, stop, is_recording, timing,
                    press_events, stage, motion, target_pose, calls, answer,
                    failure, record, keyVars, n_press, ghost, hist, device >>

\* ---------------------------------------------------------- Motion Mapper
Scale(v, k) == [i \in 1..3 |-> v[i] * k]

\* sm_state[:3] * (env.max_pos_speed / frequency)
RawDpos(sm) == Scale(<<sm[1], sm[2], sm[3]>>, PosStep)

\* sm_state[3:] * (env.max_rot_speed / frequency)
RawDrot(sm) == Scale(<<sm[4], sm[5], sm[6]>>, RotStep)

GateDpos_independent(sm, b0, b1) ==
    IF ~b1 THEN [RawDpos(sm) EXCEPT ![3] = 0] ELSE RawDpos(sm)

\* lines 146-153: the two button tests, in order
GateDpos(sm, b0, b1) ==
    LET d1 == IF ~b0 THEN RawDpos(sm) ELSE Zero3
    IN  IF ~b1 THEN [d1 EXCEPT ![3] = 0] ELSE d1

GateDrot(sm, b0, b1) == IF ~b0 THEN Zero3 ELSE RawDrot(sm)

\* sm.get_motion_state_transformed(), sm.is_button_pressed(0), (1)
ReadDevice ==
    /\ pc = "read_device"
    /\ Issue("device")
    /\ \E ok \in BOOLEAN :
         IF ok
         THEN \E in \in device :
                /\ sm_state' = in[1]
                /\ buttons' = << in[2], in[3] >>
                /\ dpos' = GateDpos(in[1], in[2], in[3])
                /\ drot_xyz' = GateDrot(in[1], in[2], in[3])
                /\ pc' = "update"
                /\ UNCHANGED failure
         ELSE /\ Fails("device")
              /\ UNCHANGED motion
    /\ UNCHANGED << now, t_start, iter_idx, stop, is_recording, timing,
                    press_events, stage, target_pose, answer, record,
                    keyVars, n_press, ghost, hist, device >>

\* --------------------------------------------------------- Pose Integrator
\* Rotations are 3x3 integer matrices (rows); one rotation unit is a quarter
\* turn, so every orientation the loop reaches is one of the 24 rotations of
\* the cube.  A rotation vector angle * axis is kept as [dir, ang]: dir the
\* axis direction with components in -1..1 (not normalised), ang the angle in
\* units of 30 degrees.
Ident == << <<1, 0, 0>>, <<0, 1, 0>>, <<0, 0, 1>> >>

MatMul(A, B) ==
    [i \in 1..3 |-> [j \in 1..3 |->
        A[i][1] * B[1][j] + A[i][2] * B[2][j] + A[i][3] * B[3][j]]]

RECURSIVE MatPow(_, _)
MatPow(M, k) == IF k = 0 THEN Ident ELSE MatMul(M, MatPow(M, k - 1))

Rx(k) == MatPow(<< <<1, 0, 0>>, <<0, 0, -1>>, <<0, 1, 0>> >>, k % 4)

Ry(k) == MatPow(<< <<0, 0, 1>>, <<0, 1, 0>>, <<-1, 0, 0>> >>, k % 4)

Rz(k) == MatPow(<< <<0, -1, 0>>, <<1, 0, 0>>, <<0, 0, 1>> >>, k % 4)

\* st.Rotation.from_euler('xyz', e): extrinsic rotations about x, then y,
\* then z
FromEuler(e) == MatMul(Rz(e[3]), MatMul(Ry(e[2]), Rx(e[1])))

Skew(d) == << <<0, -d[3], d[2]>>, <<d[3], 0, -d[1]>>, <<-d[2], d[1], 0>> >>

Outer(d) == [i \in 1..3 |-> [j \in 1..3 |-> d[i] * d[j]]]

Norm2(d) == d[1] * d[1] + d[2] * d[2] + d[3] * d[3]

\* st.Rotation.from_rotvec(v): Rodrigues' formula
\*   R = cos(t) I + sin(t) K + (1 - cos(t)) n n^T
FromRotvec(v) ==
    LET d == v.dir
        K == Skew(d)
        O == Outer(d)
    IN  CASE v.ang = 0 -> Ident
          [] v.ang = 3 -> [i \in 1..3 |-> [j \in 1..3 |-> K[i][j] + O[i][j]]]
          [] v.ang = 4 -> [i \in 1..3 |-> [j \in 1..3 |->
                             (K[i][j] + O[i][j] - Ident[i][j]) \div 2]]
          [] v.ang = 6 -> [i \in 1..3 |-> [j \in 1..3 |->
                             (2 * O[i][j]) \div Norm2(d) - Ident[i][j]]]

\* Rotation.as_rotvec(): the angle from the trace, the axis from the
\* antisymmetric part (from R + I at a half turn, first component positive)
AsRotvec(M) ==
    LET t == M[1][1] + M[2][2] + M[3][3]
        a == << M[3][2] - M[2][3], M[1][3] - M[3][1], M[2][1] - M[1][2] >>
        i == CHOOSE c \in 1..3 :
                 /\ M[c][c] + 1 # 0
                 /\ \A b \in 1..(c - 1) : M[b][b] + 1 = 0
        col == [r \in 1..3 |-> M[r][i] + Ident[r][i]]
    IN  CASE t = 3 -> [dir |-> Zero3, ang |-> 0]
          [] t = 1 -> [dir |-> [r \in 1..3 |-> a[r] \div 2], ang |-> 3]
          [] t = 0 -> [dir |-> a, ang |-> 4]
          [] t = -1 -> [dir |-> [r \in 1..3 |-> col[r] \div col[i]],
                        ang |-> 6]

Integrate_right_composed(pose, dp, dr) ==
    [pos |-> [i \in 1..3 |-> pose.pos[i] + dp[i]],
     rot |-> AsRotvec(MatMul(FromRotvec(pose.rot), FromEuler(dr)))]

Integrate_when_recording(pose, dp, dr) ==
    IF is_recording
    THEN [pos |-> [i \in 1..3 |-> pose.pos[i] + dp[i]],
          rot |-> AsRotvec(MatMul(FromEuler(dr), FromRotvec(pose.rot)))]
    ELSE pose

\* lines 155-160: the pose after one increment
Integrate(pose, dp, dr) ==
    [pos |-> [i \in 1..3 |-> pose.pos[i] + dp[i]],
     rot |-> AsRotvec(MatMul(FromEuler(dr), FromRotvec(pose.rot)))]

\* state['TargetTCPPose'] when the loop is entered: the origin, not rotated
TargetTCPPose == [pos |-> Zero3, rot |-> [dir |-> Zero3, ang |-> 0]]

\* history: one more pose update, made with the increment dr
Noted(h, dr) ==
    LET same == h.same /\ (h.n = 0 \/ h.drot = dr)
    IN  [n |-> h.n + 1, same |-> same, drot |-> IF same THEN dr ELSE Zero3]

\* target_pose[:3] += dpos; target_pose[3:] = (drot * R).as_rotvec()
PoseUpdate ==
    /\ pc = "update"
    /\ target_pose' = Integrate(target_pose, dpos, drot_xyz)
    /\ increments' = Noted(increments, drot_xyz)
    /\ pc' = "exec"
    /\ UNCHANGED << now, t_start, iter_idx, stop, is_recording, timing,
                    press_events, stage, motion, calls, answer, failure,
                    record, keyVars, n_press, ghost, start_iter,
                    after_quit, device >>

\* ------------------------------------------------------ Command Dispatcher
ExecArgs_live_stage ==
    [actions |-> << target_pose >>,
     timestamps |-> << t_command_target - now + Wall(now) >>,
     stages |-> << key_count_map["space"] >>]

\* the arguments of env.exec_actions (lines 166-169)
ExecArgs ==
    [actions |-> << target_pose >>,
     timestamps |-> << t_command_target - now + Wall(now) >>,
     stages |-> << stage >>]

\* env.exec_actions(...)
ExecActions ==
    /\ pc = "exec"
    /\ Issue("exec_actions")
    /\ last_exec' = ExecArgs
    /\ \E ok \in BOOLEAN :
         IF ok THEN pc' = "wait_end" /\ UNCHANGED failure
         ELSE Fails("exec_actions")
    /\ UNCHANGED << now, t_start, iter_idx, stop, is_recording, timing,
                    press_events, stage, motion, target_pose, answer,
                    last_start, keyVars, n_press, ghost, hist, device >>

\* precise_wait(t_cycle_end); iter_idx += 1
WaitEnd ==
    /\ pc = "wait_end"
    /\ \E j \in Lateness : now' = WaitReturns(t_cycle_end, j)
    /\ iter_idx' = iter_idx + 1
    /\ pc' = "loop"
    /\ UNCHANGED << t_start, stop, is_recording, timing, press_events, stage,
                    motion, target_pose, calls, answer, failure, record,
                    keyVars, n_press, ghost, hist, device >>

\* ------------------------------------------------------- specification
\* lines 75-80: the state when the loop is entered
Init ==
    /\ pc = "loop"
    /\ t_start = MonotonicAtStart
    /\ now = MonotonicAtStart
    /\ iter_idx = 0
    /\ stop = FALSE
    /\ is_recording = FALSE
    /\ t_cycle_end = 0
    /\ t_sample = 0
    /\ t_command_target = 0
    /\ prev_cycle_end = 0
    /\ press_events = <<>>
    /\ stage = 0
    /\ sm_state = Zero6
    /\ buttons = << FALSE, FALSE >>
    /\ dpos = Zero3
    /\ drot_xyz = Zero3
    /\ target_pose = TargetTCPPose
    /\ device = SessionInputs
    /\ key_count_map = NoCounts
    /\ key_press_list = <<>>
    /\ n_press = 0
    /\ calls = [c \in CallNames |-> 0]
    /\ answer = "none"
    /\ failure = "none"
    /\ last_start = 0
    /\ last_exec = [actions |-> <<>>, timestamps |-> <<>>, stages |-> <<>>]
    /\ mod_since_key = 0
    /\ mod_since_handled = 0
    /\ trans_iter = -1
    /\ increments = [n |-> 0, same |-> TRUE, drot |-> Zero3]
    /\ start_iter = -1
    /\ after_quit = 0

\* the steps of the loop thread
LoopStep ==
    \/ BeginCycle
    \/ ExitLoop
    \/ GetObs
    \/ GetPressEvents
    \/ HandleQuit
    \/ HandleStart
    \/ HandleStop
    \/ HandleDrop
    \/ HandleOther
    \/ ReadStage
    \/ WaitSample
    \/ ReadDevice
    \/ PoseUpdate
    \/ ExecActions
    \/ WaitEnd

Next ==
    \/ \E k \in Keys : OnPress(k)
    \/ LoopStep

Spec == Init /\ [][Next]_vars

\* the loop thread keeps running: waits and external calls return or raise
FairSpec == Spec /\ WF_vars(LoopStep)

\* ------------------------------------------------ the Motion Mapper alone
\* The loop stands at the device read of its first cycle (nothing pressed,
\* the sample wait returned on time) and the device may present any sample
\* with any combination of the buttons.
MotionInit ==
    /\ pc = "read_device"
    /\ t_start = MonotonicAtStart
    /\ now = SampleTime(CycleEnd(MonotonicAtStart, 0))
    /\ iter_idx = 0
    /\ stop = FALSE
    /\ is_recording = FALSE
    /\ t_cycle_end = CycleEnd(MonotonicAtStart, 0)
    /\ t_sample = SampleTime(CycleEnd(MonotonicAtStart, 0))
    /\ t_command_target = CommandTarget(CycleEnd(MonotonicAtStart, 0))
    /\ prev_cycle_end = 0
    /\ press_events = <<>>
    /\ stage = 0
    /\ sm_state = Zero6
    /\ buttons = << FALSE, FALSE >>
    /\ dpos = Zero3
    /\ drot_xyz = Zero3
    /\ target_pose = TargetTCPPose
    /\ device = AllInputs
    /\ key_count_map = NoCounts
    /\ key_press_list = <<>>
    /\ n_press = 0
    /\ calls = [c \in CallNames |-> IF c = "get_obs" THEN 1 ELSE 0]
    /\ answer = "none"
    /\ failure = "none"
    /\ last_start = 0
    /\ last_exec = [actions |-> <<>>, timestamps |-> <<>>, stages |-> <<>>]
    /\ mod_since_key = 0
    /\ mod_since_handled = 0
    /\ trans_iter = -1
    /\ increments = [n |-> 0, same |-> TRUE, drot |-> Zero3]
    /\ start_iter = -1
    /\ after_quit = 0

MotionNext == ReadDevice \/ PoseUpdate

MotionSpec == MotionInit /\ [][MotionNext]_vars

\* ------------------------------------------- the Pose Integrator, rotating
\* The operator presses no key, holds the left button and twists the device:
\* the loop runs its cycles from the state in which it is entered.
RotationInit ==
    /\ pc = "loop"
    /\ t_start = MonotonicAtStart
    /\ now = MonotonicAtStart
    /\ iter_idx = 0
    /\ stop = FALSE
    /\ is_recording = FALSE
    /\ t_cycle_end = 0
    /\ t_sample = 0
    /\ t_command_target = 0
    /\ prev_cycle_end = 0
    /\ press_events = <<>>
    /\ stage = 0
    /\ sm_state = Zero6
    /\ buttons = << FALSE, FALSE >>
    /\ dpos = Zero3
    /\ drot_xyz = Zero3
    /\ target_pose = TargetTCPPose
    /\ device = RotationInputs
    /\ key_count_map = NoCounts
    /\ key_press_list = <<>>
    /\ n_press = 0
    /\ calls = [c \in CallNames |-> 0]
    /\ answer = "none"
    /\ failure = "none"
    /\ last_start = 0
    /\ last_exec = [actions |-> <<>>, timestamps |-> <<>>, stages |-> <<>>]
    /\ mod_since_key = 0
    /\ mod_since_handled = 0
    /\ trans_iter = -1
    /\ increments = [n |-> 0, same |-> TRUE, drot |-> Zero3]
    /\ start_iter = -1
    /\ after_quit = 0

RotationNext ==
    \/ BeginCycle
    \/ GetObs
    \/ GetPressEvents
    \/ ReadStage
    \/ WaitSample
    \/ ReadDevice
    \/ PoseUpdate
    \/ ExecActions
    \/ WaitEnd

RotationSpec == RotationInit /\ [][RotationNext]_vars

\* ===================================================================
\* Properties
\* ===================================================================

\* an event of the batch has been handled by this step (or its call raised)
Handled(k) == Handling(k) /\ (press_events' # press_events \/ pc' = "failed")

RecorderCalls == {"start_episode", "end_episode", "drop_episode"}

\* C1: a Start handled while Recording is a no-op: no start_episode call is
\* issued (so Start, Start yields exactly one call) and the state remains
\* Recording.
C1_StartWhileRecordingIsNoOp ==
    [][ (Handled("c") /\ is_recording)
          => /\ calls'["start_episode"] = calls["start_episode"]
             /\ is_recording' ]_vars

\* C2: a Stop handled while Idle makes zero calls to the external recorder
\* and leaves the state Idle.
C2_StopWhileIdleIsNoOp ==
    [][ (Handled("s") /\ ~is_recording)
          => /\ \A c \in RecorderCalls : calls'[c] = calls[c]
             /\ ~is_recording' ]_vars

C4_DropWhileRecording ==
    [][ (Handled("backspace") /\ is_recording)
          => /\ calls'["confirm"] = calls["confirm"] + 1
             /\ calls'["drop_episode"] =
                  calls["drop_episode"] + (IF answer' = "yes" THEN 1 ELSE 0)
             /\ calls'["start_episode"] = calls["start_episode"]
             /\ calls'["end_episode"] = calls["end_episode"]
             /\ (~is_recording') <=> (answer' = "yes" /\ pc' # "failed")
             /\ answer' = "no"
                  => /\ UNCHANGED keyVars
                     /\ pc' = "handle"
                     /\ press_events' = Tail(press_events)
                     /\ failure' = "none" ]_vars

\* a Drop pressed after the Start was handled has been declined: the state
\* is still Recording and the backspace press is still counted
C4_Witness ==
    /\ is_recording
    /\ answer = "no"
    /\ calls["confirm"] = 1
    /\ key_count_map["backspace"] = 1
    /\ key_press_list = <<>>
    /\ pc = "handle"

\* the step that reads the stage, after the batch has been handled
StageIsRead == pc = "handle" /\ pc' = "wait_sample"

\* C5 (as claimed): the stage read in the cycle of a transition is 0 when the
\* modifier was not pressed after the transition key, and in every later
\* cycle it is the number of modifier presses made since the press of the
\* most recent transition key, those made before the batch was drained
\* included.
C5_StageCountsSinceKeyPress ==
    [][ StageIsRead
          => /\ (trans_iter = iter_idx /\ mod_since_key = 0) => stage' = 0
             /\ (trans_iter # -1 /\ trans_iter < iter_idx)
                  => stage' = mod_since_key ]_vars

\* C5 (amended): handling a Start, a Stop or a confirmed Drop resets the
\* modifier's hold-count to 0, and the stage read in every cycle is the
\* number of modifier presses made since that handling (since construction
\* when there was none): presses made before the handling are discarded,
\* whether they came before or after the transition key.
C5_StageCountsSinceHandling ==
    [][ StageIsRead => stage' = mod_since_handled ]_vars

\* the stage read while Recording is 1: the modifier was pressed once after
\* the Start was handled
C5_Witness ==
    /\ is_recording
    /\ trans_iter # -1
    /\ stage = 1
    /\ mod_since_handled = 1
    /\ pc = "wait_sample"

Terminated == pc \in {"done", "failed"}

\* C6: Quit ends the loop from any recording state, in good order: the loop
\* is left only at its test and only once stop is set, stop is set only by
\* handling q, every cycle begun has by then run in full (device read and
\* one dispatch per cycle), no cycle begins once stop is set, and, the loop
\* thread being scheduled, the loop terminates after Quit (or an external
\* call raises).
C6_QuitOrderlyShutdown ==
    /\ [][ (pc' = "done" /\ pc # "done") => (pc = "loop" /\ stop) ]_vars
    /\ [][ (stop' /\ ~stop) => Handled("q") ]_vars
    /\ [][ (stop /\ pc = "loop") => pc' \in {"loop", "done"} ]_vars
    /\ [][ (stop /\ pc = "handle" /\ pc' # "handle")
             => pc' \in {"wait_sample", "failed"} ]_vars
    /\ [](pc = "done" => /\ stop
                         /\ iter_idx >= 1
                         /\ calls["get_obs"] = iter_idx
                         /\ calls["device"] = iter_idx
                         /\ calls["exec_actions"] = iter_idx)
    /\ (stop ~> Terminated)

\* the loop has ended by Quit while an episode was being recorded
C6_Witness ==
    /\ pc = "done"
    /\ stop
    /\ is_recording
    /\ calls["exec_actions"] = 1

\* C7: an external call that fails is fatal: the loop is left at once, and
\* afterwards no external call is issued, no step of the cycle runs and no
\* cycle begins.
C7_FailureIsFatal ==
    /\ [][ failure' # "none" => pc' = "failed" ]_vars
    /\ [][ failure # "none" => UNCHANGED loopVars ]_vars
    /\ [][ (failure' # "none" /\ failure = "none")
             => /\ calls'[failure'] = calls[failure'] + 1
                /\ UNCHANGED << iter_idx, is_recording, stop, target_pose,
                                keyVars >> ]_vars

\* drop_episode has raised after the operator confirmed
C7_Witness ==
    /\ failure = "drop_episode"
    /\ pc = "failed"
    /\ answer = "yes"
    /\ is_recording

InCycle == pc \notin {"loop", "done"}

\* C8: the deadlines of every cycle are a function of the anchor, the index
\* and dt alone, cycle ends are exactly dt apart, and the index counts the
\* cycles one by one, whatever the waits and the handlers took.
C8_DeadlinesFromAnchor ==
    /\ t_start = MonotonicAtStart
    /\ InCycle =>
         /\ t_cycle_end = t_start + (iter_idx + 1) * Dt
         /\ t_sample = t_cycle_end - CommandLatency
         /\ t_command_target = t_cycle_end + Dt
         /\ iter_idx > 0 => t_cycle_end = prev_cycle_end + Dt
         /\ calls["get_obs"] = IF pc = "get_obs" THEN iter_idx
                                ELSE iter_idx + 1
    /\ ~InCycle =>
         /\ calls["get_obs"] = iter_idx
         /\ iter_idx > 0 => t_cycle_end = t_start + iter_idx * Dt

\* a cycle that began after its own end had passed (the operator took long
\* to answer in the cycle before) and whose sample wait returned late
C8_Witness ==
    /\ iter_idx = 1
    /\ pc = "read_device"
    /\ now > t_cycle_end + 1
    /\ calls["confirm"] = 1

\* C9: mode gating, for every sample and both buttons.
C9_ModeGating ==
    LET b0 == buttons[1]
        b1 == buttons[2]
        sm == sm_state
    IN  /\ b0 => /\ dpos = Zero3
                 /\ drot_xyz = << sm[4] * RotStep, sm[5] * RotStep,
                                  sm[6] * RotStep >>
        /\ ~b0 => drot_xyz = Zero3
        /\ (~b0 /\ ~b1) => dpos = << sm[1] * PosStep, sm[2] * PosStep, 0 >>
        /\ (~b0 /\ b1) => dpos = << sm[1] * PosStep, sm[2] * PosStep,
                                    sm[3] * PosStep >>
        /\ (dpos = Zero3 \/ drot_xyz = Zero3)

\* both buttons held while the device is pushed and twisted on every axis
C9_Witness ==
    /\ pc = "update"
    /\ buttons = << TRUE, TRUE >>
    /\ sm_state = << 1, -1, 1, -1, 1, 1 >>
    /\ dpos = Zero3
    /\ drot_xyz = << -1, 1, 1 >>

\* C10: every cycle that reaches its dispatch step issues exactly one
\* exec_actions call, after the pose update of that cycle, with one pose (the
\* updated target), one timestamp and one stage, the stage being the
\* modifier's hold-count as read after the batch of that cycle was handled.
C10_OneDispatchPerCycle ==
    /\ [][ ~Terminated' =>
             calls'["exec_actions"] =
                 iter_idx' + (IF pc' = "wait_end" THEN 1 ELSE 0) ]_vars
    /\ [][ pc' = "wait_end" =>
             /\ last_exec'.actions = << target_pose' >>
             /\ last_exec'.stages = << stage' >>
             /\ Len(last_exec'.timestamps) = 1 ]_vars
    /\ [][ calls'["exec_actions"] # calls["exec_actions"]
             => /\ pc = "exec"
                /\ calls'["exec_actions"] = calls["exec_actions"] + 1
                /\ last_exec'.actions = << target_pose >>
                /\ last_exec'.stages = << stage >>
                /\ Len(last_exec'.timestamps) = 1 ]_vars
    /\ [][ (pc' = "exec" /\ pc # "exec")
             => /\ pc = "update"
                /\ target_pose' = Integrate(target_pose, dpos, drot_xyz) ]_vars
    /\ [][ stage' # stage => StageIsRead ]_vars
    /\ [][ StageIsRead => stage' = key_count_map["space"] ]_vars

\* a command has been dispatched while Recording, tagged with the stage 0
\* that was read after the batch, the modifier having been pressed since
C10_Witness ==
    /\ pc = "wait_end"
    /\ is_recording
    /\ last_exec.stages = << 0 >>
    /\ key_count_map["space"] = 1
    /\ calls["exec_actions"] = 1

\* the device pushed along x at full scale, nothing else, no button held
PushX == << 1, 0, 0, 0, 0, 0 >>

\* the pose dispatched before this cycle's (the starting pose at first)
Dispatched ==
    IF last_exec.actions = <<>> THEN TargetTCPPose ELSE last_exec.actions[1]

\* C11: end to end, in every cycle whose device input is (1,0,0,0,0,0) with
\* no button pressed, the dispatched pose is the pose dispatched in the cycle
\* before with x increased by the fixed step max_pos_speed/frequency, and
\* with y, z and the orientation unchanged, whether Idle or Recording.
C11_ConstantPushStepsX ==
    [][ ( /\ calls'["exec_actions"] # calls["exec_actions"]
          /\ sm_state = PushX
          /\ buttons = << FALSE, FALSE >> )
          => LET new == last_exec'.actions[1]
             IN  /\ new.pos = << Dispatched.pos[1] + PosStep,
                                 Dispatched.pos[2], Dispatched.pos[3] >>
                 /\ new.rot = Dispatched.rot ]_vars

\* two cycles of the constant push have been dispatched, the first while
\* Idle and the second while Recording (the Start was handled in it)
C11_Witness ==
    /\ pc = "wait_end"
    /\ iter_idx = 1
    /\ increments = [n |-> 2, same |-> TRUE, drot |-> Zero3]
    /\ sm_state = PushX
    /\ last_exec.actions[1].pos = << 2 * PosStep, 0, 0 >>
    /\ last_exec.actions[1].rot = TargetTCPPose.rot
    /\ is_recording
    /\ start_iter = 1

\* the step that updates the target pose
PoseIsUpdated == pc = "update" /\ pc' = "exec"

\* an increment about one of the axes x, y, z alone
SingleAxis(d) == Cardinality({i \in 1..3 : d[i] # 0}) = 1

\* C12: the orientation update composes rotations on the left: the rotation
\* of the new rotation vector is R_delta * R_current, R_delta built from
\* drot_xyz as Euler angles about x, y, z and R_current from the stored
\* rotation vector; a zero increment leaves the rotation vector as it was;
\* and after n updates that all used the same increment about one axis, the
\* orientation is the single rotation by n times that angle about the axis.
C12_LeftComposition ==
    /\ [][ PoseIsUpdated
              => /\ FromRotvec(target_pose'.rot) =
                      MatMul(FromEuler(drot_xyz), FromRotvec(target_pose.rot))
                 /\ drot_xyz = Zero3 => target_pose'.rot = target_pose.rot
       ]_vars
    /\ [][ (increments'.n > 0 /\ increments'.same
               /\ SingleAxis(increments'.drot))
              => FromRotvec(target_pose'.rot) =
                   FromEuler(Scale(increments'.drot, increments'.n)) ]_vars

\* a quarter turn about x, then one about y: the orientation is the third of
\* a turn about (1,1,-1) that y * x makes, which neither x * y nor the sum
\* of the two rotation vectors is
C12_Witness ==
    /\ increments.n = 2
    /\ sm_state = << 0, 0, 0, 0, 1, 0 >>
    /\ FromRotvec(last_exec.actions[1].rot) = Rx(1)
    /\ target_pose.rot = [dir |-> << 1, 1, -1 >>, ang |-> 4]
    /\ target_pose.rot # AsRotvec(MatMul(Rx(1), Ry(1)))
    /\ pc = "exec"

\* the steps of a cycle, in the order of the loop body
StepOrder ==
    << "loop", "get_obs", "drain", "handle", "wait_sample", "read_device",
       "update", "exec", "wait_end" >>

\* C13: the loop thread goes through the steps of every cycle in the order
\* deadlines, get_obs, drain, event handling, wait for the sample time,
\* device read, pose update, exec_actions, wait for the cycle end, index
\* incremented; each effect belongs to its step; and every recorder call of
\* cycle i is made after the get_obs and before the exec_actions of cycle i.
C13_StepOrder ==
    /\ [][ pc' # pc
              => \/ pc' = "failed"
                 \/ pc = "loop" /\ pc' = "done"
                 \/ \E i \in 1..Len(StepOrder) :
                       /\ pc = StepOrder[i]
                       /\ pc' = StepOrder[(i % Len(StepOrder)) + 1] ]_vars
    /\ [][ timing' # timing => (pc = "loop" /\ pc' = "get_obs") ]_vars
    /\ [][ calls'["get_obs"] # calls["get_obs"] => pc = "get_obs" ]_vars
    /\ [][ press_events' # press_events => pc \in {"drain", "handle"} ]_vars
    /\ [][ ( \/ \E c \in RecorderCalls \cup {"confirm"} :
                  calls'[c] # calls[c]
             \/ is_recording' # is_recording
             \/ stop' # stop )
              => /\ pc = "handle"
                 /\ calls["get_obs"] = iter_idx + 1
                 /\ calls["exec_actions"] = iter_idx ]_vars
    /\ [][ now' # now => pc \in {"handle", "wait_sample", "wait_end"} ]_vars
    /\ [][ (calls'["device"] # calls["device"] \/ motion' # motion)
              => pc = "read_device" ]_vars
    /\ [][ target_pose' # target_pose => pc = "update" ]_vars
    /\ [][ calls'["exec_actions"] # calls["exec_actions"]
              => (pc = "exec" /\ calls["get_obs"] = iter_idx + 1) ]_vars
    /\ [][ iter_idx' # iter_idx
              => /\ pc = "wait_end"
                 /\ pc' = "loop"
                 /\ iter_idx' = iter_idx + 1 ]_vars

\* a cycle in which a Start and a Stop were handled has run in full
C13_Witness ==
    /\ pc = "loop"
    /\ iter_idx = 1
    /\ calls["get_obs"] = 1
    /\ calls["start_episode"] = 1
    /\ calls["end_episode"] = 1
    /\ calls["device"] = 1
    /\ calls["exec_actions"] = 1
    /\ target_pose # TargetTCPPose

\* C14: the timestamp given to start_episode by a Start handled in cycle i is
\* the wall-clock reading of the monotonic instant t_start + (i+2)*dt, which
\* is command_target(i); and the command dispatched in the cycle of a Start
\* carries that same timestamp, whatever time went by in between.
C14_StartAlignsWithCommand ==
    /\ [][ calls'["start_episode"] # calls["start_episode"]
              => /\ last_start' = Wall(t_start + (iter_idx + 2) * Dt)
                 /\ last_start' = Wall(t_command_target) ]_vars
    /\ [][ ( /\ calls'["exec_actions"] # calls["exec_actions"]
             /\ start_iter = iter_idx )
              => last_exec'.timestamps = << last_start >> ]_vars

\* a Start was handled, then the operator took long to decline a Drop in the
\* same batch: the command is dispatched after its own target instant, with
\* the timestamp the Start gave
C14_Witness ==
    /\ pc = "wait_end"
    /\ start_iter = iter_idx
    /\ is_recording
    /\ calls["confirm"] = 1
    /\ now > t_command_target
    /\ calls["exec_actions"] = iter_idx + 1
    /\ last_exec.timestamps = << last_start >>

\* an event the transition table defines as a no-op has been handled
NoOpHandled ==
    \/ Handled("c") /\ is_recording
    \/ Handled("s") /\ ~is_recording
    \/ Handled("backspace") /\ ~is_recording

\* C15: handling a Start while Recording, a Stop while Idle or a Drop while
\* Idle changes nothing: the recording state, the modifier's hold-count and
\* the pending presses of the key counter are as they were.
C15_NoOpEventsChangeNothing ==
    [][ NoOpHandled
          => /\ is_recording' = is_recording
             /\ key_count_map'["space"] = key_count_map["space"]
             /\ key_press_list' = key_press_list ]_vars

\* C16: every key press appended by the listener is handled exactly once:
\* pending presses leave the key counter only by being drained into the
\* batch, the events of a batch leave it one by one, by being handled, and
\* the batch is empty when the cycle goes on.
C16_EveryEventConsumedOnce ==
    /\ [][ key_press_list' # key_press_list
              => \/ \E k \in Keys : key_press_list' = Append(key_press_list, k)
                 \/ /\ pc = "drain"
                    /\ key_press_list' = <<>>
                    /\ press_events' = key_press_list ]_vars
    /\ [][ press_events' # press_events
              => \/ pc = "drain" /\ press_events = <<>>
                 \/ pc = "handle" /\ press_events' = Tail(press_events) ]_vars
    /\ [][ StageIsRead => press_events = <<>> ]_vars

\* C17: handling Quit does not cut the batch short: Quit only sets stop and
\* the loop goes on with the next event; once stop is set the rest of the
\* batch is still handled in arrival order; a Start, a Stop or a confirmed
\* Drop handled after Quit issues its recorder call and changes the
\* recording state; and the loop is left only with the batch handled.
C17_QuitDoesNotCutBatch ==
    /\ [][ Handled("q")
              => /\ stop'
                 /\ pc' = "handle"
                 /\ press_events' = Tail(press_events) ]_vars
    /\ [][ ( /\ stop
             /\ pc = "handle"
             /\ press_events # <<>>
             /\ (pc' # pc \/ press_events' # press_events) )
              => \/ pc' = "failed"
                 \/ pc' = "handle" /\ press_events' = Tail(press_events)
       ]_vars
    /\ [][ (stop /\ Handled("c") /\ pc' # "failed")
              => /\ calls'["start_episode"] = calls["start_episode"] + 1
                 /\ is_recording' ]_vars
    /\ [][ (stop /\ Handled("s") /\ pc' # "failed")
              => /\ calls'["end_episode"] = calls["end_episode"] + 1
                 /\ ~is_recording' ]_vars
    /\ [][ (stop /\ Handled("backspace") /\ answer' = "yes"
               /\ pc' # "failed")
              => /\ calls'["drop_episode"] = calls["drop_episode"] + 1
                 /\ ~is_recording' ]_vars
    /\ [][ (pc' = "done" /\ pc # "done") => press_events = <<>> ]_vars

\* Quit came first in a batch and the Start after it was still handled: the
\* loop has ended in the Recording state
C17_Witness ==
    /\ pc = "done"
    /\ stop
    /\ after_quit = 1
    /\ calls["start_episode"] = 1
    /\ start_iter = 0
    /\ is_recording
    /\ iter_idx = 1

=============================================================================
